---- MODULE Spec2Model ----
(***************************************************************************)
(* A model of scrape.py: the product, testimonial and review crawlers and  *)
(* the top-level run that writes their tables.  A site is fixed by Init;   *)
(* every fetch may fail (non-success status or network error).            *)
(***************************************************************************)
EXTENDS Integers, Sequences, FiniteSets, TLC

VARIABLES
    site,           \* the web site: listing chains, testimonial chain, detail pages
    pc,             \* position of the running program
    raised,         \* the exception that ended the run, if any
    fetched,        \* log of the requests issued by get_soup: url and headers
    category,       \* scrape_products: index of the loop over categories
    url,            \* scrape_products: url of the while loop
    page,           \* scrape_products: page counter
    rows,           \* scrape_products: rows of the current category
    seen_links,     \* scrape_products: links already recorded
    all_rows,       \* scrape_products: rows of the finished categories
    products_df,    \* the table returned by scrape_products (input of scrape_reviews)
    t_url,          \* scrape_testimonials: url of the while loop
    t_page,         \* scrape_testimonials: page counter
    t_rows,         \* scrape_testimonials: rows
    testimonials_df,\* the table returned by scrape_testimonials
    product_links,  \* scrape_reviews: the links to visit
    idx,            \* scrape_reviews: index of the loop over product_links
    r_all_rows,     \* scrape_reviews: all_rows
    all_reviews_df, \* scrape_reviews: first returned table
    df_given,       \* scrape_reviews: its argument products_df is a table, not None
    reviews_2023_df,\* scrape_reviews: second returned table
    files,          \* the files of OUT_DIR: name -> written table, or NotWritten
    calls,          \* the caller: number of calls of scrape_products made
    first_df,       \* the caller: the table its first call of scrape_products returned
    raw_str,        \* parse_date: its argument raw
    date_case,      \* how the site wrote raw: format, year, month, day, hour, padding
    parsed          \* parse_date: <<>> before it returns, then <<its result>>

vars == <<site, pc, raised, fetched, category, url, page, rows, seen_links,
          all_rows, products_df, t_url, t_page, t_rows, testimonials_df,
          product_links, idx, r_all_rows, all_reviews_df, reviews_2023_df, files,
          df_given, calls, first_df, raw_str, date_case, parsed>>

productVars == <<category, url, page, rows, seen_links, all_rows, products_df>>
testimonialVars == <<t_url, t_page, t_rows, testimonials_df>>
reviewVars == <<product_links, idx, r_all_rows, all_reviews_df, reviews_2023_df, df_given>>
callerVars == <<calls, first_df>>
dateVars == <<raw_str, date_case, parsed>>

-----------------------------------------------------------------------------
(* Bounds of the model *)

\* pages of the three listing chains of a site, together
MaxSitePages == 5
\* pages of the testimonial chain
MaxTPages == 3
\* products handed to scrape_reviews
MaxProducts == 3
\* requests one run may issue
MaxFetch == 12

-----------------------------------------------------------------------------
(* Values *)

\* Python's None, for a text field
NONE == "None"

\* An href or url: abs says it starts with "http"; kind "none" is None,
\* kind "empty" is the empty string.
Href(abs, kind, cat, n) == [abs |-> abs, kind |-> kind, cat |-> cat, n |-> n]
NoneUrl == Href(FALSE, "none", "", 0)
EmptyUrl == Href(FALSE, "empty", "", 0)

\* truth value of an href in a Python condition: None and "" are false
Truthy(h) == h.kind \notin {"none", "empty"}

\* link.startswith("http")
StartsWithHttp(h) == h.abs

\* BASE + link
BasePlus(h) == [h EXCEPT !.abs = TRUE]

categories == <<"apparel", "consumables", "household">>

\* f"{BASE}/products?category={category}"
CategoryUrl(c) == Href(TRUE, "listing", c, 1)

\* f"{BASE}/testimonials"
TestimonialsUrl == Href(TRUE, "testimonials", "", 1)

HEADERS == [ua |-> "HW3 bot"]

secret_headers == [token |-> "secret123", referer |-> TestimonialsUrl]

NoRaise == [exc |-> "none", where |-> "none"]

-----------------------------------------------------------------------------
(* The site *)

SeqsOfLen(S, n) == [1..n -> S]

SeqsUpTo(S, lo, hi) == UNION {SeqsOfLen(S, n) : n \in lo..hi}

\* A product card of a listing page.  name = NONE: the card has no "h3 a"
\* element (then href is not read); price, description = NONE: no such element.
Card(name, href, price, description) ==
    [name |-> name, href |-> href, price |-> price, description |-> description]

ProductHref(abs, n) == Href(abs, "product", "", n)

\* The cards of the sample listing pages.
PageA == << Card("n1", ProductHref(FALSE, 1), "p1", "d1"),
            Card("n2", ProductHref(TRUE, 2), NONE, "d2") >>
PageB == << Card("n1", ProductHref(TRUE, 1), "p1", NONE),
            Card(NONE, NoneUrl, NONE, "d5") >>
PageN == << Card("n4", ProductHref(FALSE, 4), "p4", "d4"),
            Card(NONE, NoneUrl, "p6", "d6") >>
PageC == << >>

ListingSamples == {PageA, PageB, PageN, PageC}

\* the product paths the sample pages link to
Paths == {1, 2, 4}

Anchor(text, href) == [text |-> text, href |-> href]

\* The pagination control of page k of the n pages of category c: "<" to the
\* previous page, the numbered anchor of the first page, ">" to the next page.
Paging(c, k, n) ==
    (IF k > 1 THEN <<Anchor("<", Href(FALSE, "listing", c, k - 1))>> ELSE <<>>)
    \o <<Anchor("1", Href(FALSE, "listing", c, 1))>>
    \o (IF k < n THEN <<Anchor(">", Href(k % 2 = 0, "listing", c, k + 1))>> ELSE <<>>)

\* the numbers of pages of the three listing chains, MaxSitePages at most
ChainLengths ==
    { t \in (1..MaxSitePages) \X (1..MaxSitePages) \X (1..MaxSitePages) :
        t[1] + t[2] + t[3] <= MaxSitePages }

MkListing(l) ==
    [c \in 1..Len(categories) |->
        [k \in 1..Len(l[c]) |->
            [cards |-> l[c][k], paging |-> Paging(categories[c], k, Len(l[c]))]]]

CatIndex(c) == CHOOSE i \in 1..Len(categories) : categories[i] = c

-----------------------------------------------------------------------------
(* get_soup *)

\* req_headers = HEADERS.copy(); if headers: req_headers.update(headers)
ReqHeaders(headers) ==
    IF DOMAIN headers = {} THEN HEADERS
    ELSE [k \in DOMAIN HEADERS \cup DOMAIN headers |->
            IF k \in DOMAIN headers THEN headers[k] ELSE HEADERS[k]]

NoHeaders == [k \in {} |-> ""]

Request(u, headers) == [url |-> u, headers |-> ReqHeaders(headers)]

\* the document the site serves for a listing url
ListingPage(u) == site.listing[CatIndex(u.cat)][u.n]

-----------------------------------------------------------------------------
(* scrape_products *)

\* link = name_el.get("href") if name_el else None
CardLink(product) == IF product.name # NONE THEN product.href ELSE NoneUrl

\* if link and not link.startswith("http"): link = BASE + link
ResolveLink(link) ==
    IF Truthy(link) /\ ~StartsWithHttp(link) THEN BasePlus(link) ELSE link

\* IsDuplicate without the seen-links test
IsDuplicateNever(link, seen) == FALSE

\* if link in seen_links: continue
IsDuplicate(link, seen) == link \in seen

ProductRow(product, link, c) ==
    [name |-> product.name, price |-> product.price, link |-> link,
     description |-> product.description, category |-> c]

\* the loop over the product cards of one page
RECURSIVE ExtractCards(_, _, _, _)
ExtractCards(products, rws, seen, c) ==
    IF products = <<>> THEN [rows |-> rws, seen |-> seen]
    ELSE LET product == Head(products)
             link == ResolveLink(CardLink(product))
         IN  IF IsDuplicate(link, seen)
             THEN ExtractCards(Tail(products), rws, seen, c)
             ELSE ExtractCards(Tail(products), Append(rws, ProductRow(product, link, c)),
                               seen \cup {link}, c)

\* NextLink that takes the first anchor of the control, whatever its text
NextLinkFirstAnchor(paging) == IF paging = <<>> THEN NoneUrl ELSE Head(paging).href

\* IsNextAnchor that finds no anchor
IsNextAnchorNever(a) == FALSE

\* a.get_text(strip=True) == ">"
IsNextAnchor(a) == a.text = ">"

\* the href of the first anchor of the pagination control whose text is ">"
RECURSIVE NextLink(_)
NextLink(paging) ==
    IF paging = <<>> THEN NoneUrl
    ELSE IF IsNextAnchor(Head(paging)) THEN Head(paging).href
    ELSE NextLink(Tail(paging))

\* url = next_link if next_link.startswith("http") else BASE + next_link
FollowLink(next_link) ==
    IF StartsWithHttp(next_link) THEN next_link ELSE BasePlus(next_link)

\* extend that puts the rows of the category first
ExtendFront(all, rws) == rws \o all

\* all_rows.extend(rows)
Extend(all, rws) == all \o rws

\* One iteration of "while url": fetch the page, record its cards, follow the
\* next-page anchor; without one the category ends, and after the last
\* category the table is returned.
ScrapeProductsPage ==
    /\ pc = "scrape_products"
    /\ Len(fetched) < MaxFetch
    /\ LET soup == ListingPage(url)
           c == categories[category]
           res == ExtractCards(soup.cards, rows, seen_links, c)
           next_link == NextLink(soup.paging)
       IN  /\ fetched' = Append(fetched, Request(url, NoHeaders))
           /\ seen_links' = res.seen
           /\ IF Truthy(next_link)
              THEN /\ url' = FollowLink(next_link)
                   /\ page' = page + 1
                   /\ rows' = res.rows
                   /\ UNCHANGED <<category, all_rows, products_df, pc>>
              ELSE /\ all_rows' = Extend(all_rows, res.rows)
                   /\ IF category < Len(categories)
                      THEN /\ category' = category + 1
                           /\ rows' = <<>>
                           /\ url' = CategoryUrl(categories[category + 1])
                           /\ page' = 1
                           /\ UNCHANGED <<products_df, pc>>
                      ELSE /\ rows' = res.rows
                           /\ url' = NoneUrl
                           /\ products_df' = all_rows'
                           /\ pc' = "products_returned"
                           /\ UNCHANGED <<category, page>>
    /\ UNCHANGED <<site, raised, files>>
    /\ UNCHANGED testimonialVars
    /\ UNCHANGED reviewVars
    /\ UNCHANGED callerVars
    /\ UNCHANGED dateVars

\* a seen-links set that outlives the call
KeptSeenLinks(seen) == seen

\* seen_links = set(), at every call of scrape_products
FreshSeenLinks(seen) == {}

\* scrape_products() run from category c, url u to its return, every fetch
\* succeeding: the table it returns and the requests it issues
RECURSIVE ScrapeProductsFrom(_, _, _, _, _, _)
ScrapeProductsFrom(c, u, rws, seen, all, reqs) ==
    LET soup == ListingPage(u)
        res == ExtractCards(soup.cards, rws, seen, categories[c])
        next_link == NextLink(soup.paging)
        sent == Append(reqs, Request(u, NoHeaders))
    IN  IF Truthy(next_link)
        THEN ScrapeProductsFrom(c, FollowLink(next_link), res.rows, res.seen, all, sent)
        ELSE IF c < Len(categories)
        THEN ScrapeProductsFrom(c + 1, CategoryUrl(categories[c + 1]), <<>>, res.seen,
                                Extend(all, res.rows), sent)
        ELSE [df |-> Extend(all, res.rows), fetched |-> sent]

scrape_products ==
    ScrapeProductsFrom(1, CategoryUrl(categories[1]), <<>>, FreshSeenLinks({}), <<>>, <<>>)

\* The caller, after scrape_products() has returned, keeps the table and calls
\* scrape_products() once more: the first statements of the function set its
\* locals again.
CallScrapeProductsAgain ==
    /\ pc = "products_returned"
    /\ calls = 1
    /\ calls' = 2
    /\ first_df' = products_df
    /\ all_rows' = <<>>
    /\ seen_links' = FreshSeenLinks(seen_links)
    /\ category' = 1
    /\ rows' = <<>>
    /\ url' = CategoryUrl(categories[1])
    /\ page' = 1
    /\ pc' = "scrape_products"
    /\ UNCHANGED <<site, raised, fetched, files, products_df>>
    /\ UNCHANGED testimonialVars
    /\ UNCHANGED reviewVars
    /\ UNCHANGED dateVars

\* a crawl that catches the exception and returns
ReturnsOnRaise(returned) == returned

\* soup = get_soup(url) stands in no try statement: the exception leaves the
\* crawl and main
AfterRaise(returned) == "aborted"

\* get_soup raises in scrape_products (r.raise_for_status() or requests.get):
\* nothing catches it, the call and its caller end.
ScrapeProductsFetchFail ==
    /\ pc = "scrape_products"
    /\ Len(fetched) < MaxFetch
    /\ fetched' = Append(fetched, Request(url, NoHeaders))
    /\ raised' = [exc |-> "FetchError", where |-> "scrape_products"]
    /\ pc' = AfterRaise("products_returned")
    /\ UNCHANGED <<site, files>>
    /\ UNCHANGED productVars
    /\ UNCHANGED testimonialVars
    /\ UNCHANGED reviewVars
    /\ UNCHANGED callerVars
    /\ UNCHANGED dateVars

-----------------------------------------------------------------------------
(* scrape_testimonials *)

\* A testimonial card.  author = NONE: no identicon-svg element; text = NONE:
\* no p.text element, "": an empty one; rating_el = <<>>: no span.rating
\* element, <<svgs>>: one holding the svg elements svgs; hx: the hx-get
\* attribute (NoneUrl: the card has none).
TCard(author, text, rating_el, hx) ==
    [author |-> author, text |-> text, rating_el |-> rating_el, hx |-> hx]

Stars(n) == << [i \in 1..n |-> "svg"] >>

\* the cards of the sample testimonial pages
TPage1 == << TCard("a1", "t1", Stars(5), NoneUrl), TCard(NONE, "t2", <<>>, NoneUrl) >>
TPage2 == << TCard("a3", "", Stars(3), NoneUrl), TCard("a4", "t4", Stars(0), NoneUrl) >>
TPage3 == << >>

TestimonialSamples == {TPage1, TPage2, TPage3}

\* "/api/testimonials?page=k"
TPageHref(k) == Href(FALSE, "testimonials", "", k)

\* a card that only carries the trigger attribute
Trigger(hx) == TCard(NONE, NONE, <<>>, hx)

\* How a page names its successor.  "placeholder": a trigger card after the
\* content; "oncard": hx-get on the last content card; "two": a trigger naming
\* the page itself before the content and one naming the successor after it.
\* The last page carries none ("last") or an hx-get attribute that is empty
\* ("empty").
WithTrigger(cards, mode, k) ==
    CASE mode = "placeholder" -> Append(cards, Trigger(TPageHref(k + 1)))
      [] mode = "oncard" ->
            IF cards = <<>> THEN <<Trigger(TPageHref(k + 1))>>
            ELSE [cards EXCEPT ![Len(cards)].hx = TPageHref(k + 1)]
      [] mode = "two" -> <<Trigger(TPageHref(k))>> \o cards \o <<Trigger(TPageHref(k + 1))>>
      [] mode = "empty" -> Append(cards, Trigger(EmptyUrl))
      [] OTHER -> cards

InnerModes == {"placeholder", "oncard", "two"}
LastModes == {"last", "empty"}

\* the testimonial chains of n pages
TestimonialChainsOfLen(n) ==
    { [k \in 1..n |-> [cards |-> WithTrigger(c[k], m[k], k)]] :
        c \in SeqsOfLen(TestimonialSamples, n),
        m \in { m \in SeqsOfLen(InnerModes \cup LastModes, n) :
                  /\ m[n] \in LastModes
                  /\ \A k \in 1..(n - 1) : m[k] \in InnerModes } }

TestimonialChains == UNION { TestimonialChainsOfLen(n) : n \in 1..MaxTPages }

\* the document the site serves for a testimonial url
TestimonialPage(u) == site.testimonials[u.n]

\* the headers of the first request
TestimonialHeadersNever(p) == NoHeaders

\* if page == 1: get_soup(url) else: get_soup(url, headers=secret_headers)
TestimonialHeaders(p) == IF p = 1 THEN NoHeaders ELSE secret_headers

NoRating == [none |-> TRUE, n |-> 0]

\* rating = len(rating_el.select("svg")) if rating_el else None
Rating(rating_el) ==
    IF rating_el = <<>> THEN NoRating ELSE [none |-> FALSE, n |-> Len(rating_el[1])]

\* HasText that takes an empty text for content
HasTextOrEmpty(text) == text # NONE

\* if text:
HasText(text) == text # NONE /\ text # ""

TestimonialRow(t) == [author |-> t.author, text |-> t.text, rating |-> Rating(t.rating_el)]

\* the loop over the testimonial cards of one page
RECURSIVE ExtractTestimonials(_)
ExtractTestimonials(testimonials) ==
    IF testimonials = <<>> THEN <<>>
    ELSE (IF HasText(Head(testimonials).text)
          THEN <<TestimonialRow(Head(testimonials))>> ELSE <<>>)
         \o ExtractTestimonials(Tail(testimonials))

\* the first non-empty hx-get of the cards
RECURSIVE FirstTrigger(_, _)
FirstTrigger(testimonials, next_link) ==
    IF testimonials = <<>> THEN next_link
    ELSE IF Truthy(Head(testimonials).hx) THEN Head(testimonials).hx
    ELSE FirstTrigger(Tail(testimonials), next_link)

\* the loop over div.testimonial[hx-get]: the last non-empty hx-get wins
RECURSIVE LastTrigger(_, _)
LastTrigger(testimonials, next_link) ==
    IF testimonials = <<>> THEN next_link
    ELSE LastTrigger(Tail(testimonials),
                     IF Head(testimonials).hx.kind # "none" /\ Truthy(Head(testimonials).hx)
                     THEN Head(testimonials).hx ELSE next_link)

\* One iteration of "while url": fetch the page (the first with the default
\* headers, the others with secret_headers), record its cards that have text,
\* follow the trigger; without one the table is returned.
ScrapeTestimonialsPage ==
    /\ pc = "scrape_testimonials"
    /\ Len(fetched) < MaxFetch
    /\ LET soup == TestimonialPage(t_url)
           next_link == LastTrigger(soup.cards, NoneUrl)
       IN  /\ fetched' = Append(fetched, Request(t_url, TestimonialHeaders(t_page)))
           /\ t_rows' = t_rows \o ExtractTestimonials(soup.cards)
           /\ IF Truthy(next_link)
              THEN /\ t_url' = FollowLink(next_link)
                   /\ t_page' = t_page + 1
                   /\ UNCHANGED <<testimonials_df, pc>>
              ELSE /\ t_url' = NoneUrl
                   /\ testimonials_df' = t_rows'
                   /\ pc' = "testimonials_returned"
                   /\ UNCHANGED t_page
    /\ UNCHANGED <<site, raised, files>>
    /\ UNCHANGED productVars
    /\ UNCHANGED reviewVars
    /\ UNCHANGED callerVars
    /\ UNCHANGED dateVars

\* get_soup raises in scrape_testimonials: nothing catches it.
ScrapeTestimonialsFetchFail ==
    /\ pc = "scrape_testimonials"
    /\ Len(fetched) < MaxFetch
    /\ fetched' = Append(fetched, Request(t_url, TestimonialHeaders(t_page)))
    /\ raised' = [exc |-> "FetchError", where |-> "scrape_testimonials"]
    /\ pc' = AfterRaise("testimonials_returned")
    /\ UNCHANGED <<site, files>>
    /\ UNCHANGED productVars
    /\ UNCHANGED testimonialVars
    /\ UNCHANGED reviewVars
    /\ UNCHANGED callerVars
    /\ UNCHANGED dateVars

-----------------------------------------------------------------------------
(* parse_date *)

\* A raw date string is a sequence of tokens: a run of digits (its value n and
\* its number of digits w), a run of whitespace (" "), a word, or a
\* punctuation character.
Digits(n, w) == [t |-> "digits", n |-> n, w |-> w]
Lit(t) == [t |-> t, n |-> 0, w |-> 0]
WS == Lit(" ")

IsSpace(tok) == tok.t = " "

\* strip that removes nothing
StripNothing(r) == r

\* raw.strip()
RECURSIVE LStrip(_)
LStrip(raw) ==
    IF raw # <<>> /\ IsSpace(Head(raw)) THEN LStrip(Tail(raw)) ELSE raw

RECURSIVE RStrip(_)
RStrip(raw) ==
    IF raw # <<>> /\ IsSpace(raw[Len(raw)]) THEN RStrip(SubSeq(raw, 1, Len(raw) - 1)) ELSE raw

Strip(raw) == RStrip(LStrip(raw))

\* the formats of parse_date, in its order
FmtIsoDate == <<"%Y", "-", "%m", "-", "%d">>
FmtDotted == <<"%d", ".", "%m", ".", "%Y">>
FmtAbbrMonth == <<"%b", " ", "%d", ",", " ", "%Y">>
FmtFullMonth == <<"%B", " ", "%d", ",", " ", "%Y">>
FmtIsoDateTime == <<"%Y", "-", "%m", "-", "%d", " ", "%H", ":", "%M", ":", "%S">>

Formats == <<FmtIsoDate, FmtDotted, FmtAbbrMonth, FmtFullMonth, FmtIsoDateTime>>

AbbrMonths == <<"Jan", "Feb", "Mar", "Apr", "May", "Jun",
                "Jul", "Aug", "Sep", "Oct", "Nov", "Dec">>
FullMonths == <<"January", "February", "March", "April", "May", "June",
                "July", "August", "September", "October", "November", "December">>

InSeq(x, sq) == \E i \in DOMAIN sq : sq[i] = x
IndexOf(x, sq) == CHOOSE i \in DOMAIN sq : sq[i] = x

IsNumber(tok, maxw, lo, hi) ==
    tok.t = "digits" /\ tok.w >= 1 /\ tok.w <= maxw /\ tok.n >= lo /\ tok.n <= hi

\* does the token match the directive (or literal) of a strptime format
DirMatches(d, tok) ==
    CASE d = "%Y" -> tok.t = "digits" /\ tok.w = 4
      [] d = "%m" -> IsNumber(tok, 2, 1, 12)
      [] d = "%d" -> IsNumber(tok, 2, 1, 31)
      [] d = "%H" -> IsNumber(tok, 2, 0, 23)
      [] d = "%M" -> IsNumber(tok, 2, 0, 59)
      [] d = "%S" -> IsNumber(tok, 2, 0, 61)
      [] d = "%b" -> InSeq(tok.t, AbbrMonths)
      [] d = "%B" -> InSeq(tok.t, FullMonths)
      [] OTHER -> tok.t = d

FmtMatches(raw, fmt) ==
    /\ Len(raw) = Len(fmt)
    /\ \A i \in DOMAIN fmt : DirMatches(fmt[i], raw[i])

\* the value a matched string gives to a directive; dflt when the format has none
Field(raw, fmt, d, dflt) == IF InSeq(d, fmt) THEN raw[IndexOf(d, fmt)].n ELSE dflt

MonthOf(raw, fmt) ==
    IF InSeq("%b", fmt) THEN IndexOf(raw[IndexOf("%b", fmt)].t, AbbrMonths)
    ELSE IF InSeq("%B", fmt) THEN IndexOf(raw[IndexOf("%B", fmt)].t, FullMonths)
    ELSE Field(raw, fmt, "%m", 1)

IsLeap(y) == (y % 4 = 0 /\ y % 100 # 0) \/ y % 400 = 0

DaysIn(m, y) ==
    IF m \in {4, 6, 9, 11} THEN 30
    ELSE IF m = 2 THEN (IF IsLeap(y) THEN 29 ELSE 28)
    ELSE 31

Date(y, m, d, H, M, S) == [none |-> FALSE, y |-> y, m |-> m, d |-> d, H |-> H, M |-> M, S |-> S]

\* Python's None, for a date
NoDate == [none |-> TRUE, y |-> 0, m |-> 0, d |-> 0, H |-> 0, M |-> 0, S |-> 0]

\* datetime.strptime(raw, fmt); NoDate stands for its ValueError
Strptime(raw, fmt) ==
    IF ~FmtMatches(raw, fmt) THEN NoDate
    ELSE LET y == Field(raw, fmt, "%Y", 1900)
             m == MonthOf(raw, fmt)
             d == Field(raw, fmt, "%d", 1)
         IN  IF y < 1 \/ d > DaysIn(m, y) \/ Field(raw, fmt, "%S", 0) > 59 THEN NoDate
             ELSE Date(y, m, d, Field(raw, fmt, "%H", 0), Field(raw, fmt, "%M", 0),
                       Field(raw, fmt, "%S", 0))

\* the loop over the formats from format i on: the first that parses wins
RECURSIVE TryFormats(_, _)
TryFormats(raw, i) ==
    IF i > Len(Formats) THEN NoDate
    ELSE IF ~Strptime(raw, Formats[i]).none THEN Strptime(raw, Formats[i])
    ELSE TryFormats(raw, i + 1)

parse_date(raw) == TryFormats(Strip(raw), 1)

\* the sample raw dates
RawIsoPadded == <<WS, Digits(2023, 4), Lit("-"), Digits(3, 2), Lit("-"), Digits(15, 2), WS>>
RawDotted2022 == <<Digits(15, 2), Lit("."), Digits(3, 2), Lit("."), Digits(2022, 4)>>
RawNotADate == <<Lit("not"), Lit("-"), Lit("a"), Lit("-"), Lit("date")>>
RawAbbr2023 == <<Lit("Mar"), WS, Digits(15, 2), Lit(","), WS, Digits(2023, 4)>>
RawEmpty == << >>
RawIso1600 == <<Digits(1600, 4), Lit("-"), Digits(1, 2), Lit("-"), Digits(1, 2)>>
RawFull2023 == <<Lit("March"), WS, Digits(5, 1), Lit(","), WS, Digits(2023, 4)>>
RawDateTime2023 == <<Digits(2023, 4), Lit("-"), Digits(3, 2), Lit("-"), Digits(15, 2), WS,
                     Digits(10, 2), Lit(":"), Digits(30, 2), Lit(":"), Digits(0, 2)>>
RawFeb31 == <<Digits(31, 2), Lit("."), Digits(2, 2), Lit("."), Digits(2023, 4)>>

\* How a raw date is written: fmt 1..5 is the format of Formats it follows
\* (0: it follows none), y and yw the year and its number of digits, m the
\* month, d the day, h the hour, pad the whitespace around it.
DateCase(fmt, y, yw, m, d, h, pad) ==
    [fmt |-> fmt, y |-> y, yw |-> yw, m |-> m, d |-> d, h |-> h, pad |-> pad]

NoCase == DateCase(0, 0, 0, 0, 0, 0, "none")

CaseYears == {<<2023, 4>>, <<2022, 4>>, <<23, 2>>}
CaseMonths == {2, 3, 5, 13}
CaseDays == {5, 15, 31}
CaseHours == {10, 25}
CasePads == {"none", "left", "right", "both"}

DateCases ==
    { DateCase(f, y[1], y[2], m, d, h, pad) :
        f \in 1..Len(Formats), y \in CaseYears, m \in CaseMonths, d \in CaseDays,
        h \in CaseHours, pad \in CasePads }

NumWidth(n) == IF n < 10 THEN 1 ELSE 2

MonthName(names, m) == IF m \in DOMAIN names THEN names[m] ELSE "Smarch"

\* the token a case writes for a directive or a literal of its format
CaseToken(dc, d) ==
    CASE d = "%Y" -> Digits(dc.y, dc.yw)
      [] d = "%m" -> Digits(dc.m, 2)
      [] d = "%d" -> Digits(dc.d, NumWidth(dc.d))
      [] d = "%H" -> Digits(dc.h, 2)
      [] d = "%M" -> Digits(30, 2)
      [] d = "%S" -> Digits(0, 2)
      [] d = "%b" -> Lit(MonthName(AbbrMonths, dc.m))
      [] d = "%B" -> Lit(MonthName(FullMonths, dc.m))
      [] OTHER -> Lit(d)

\* the raw string of a case
CaseRaw(dc) ==
    LET body == IF dc.fmt = 0 THEN RawNotADate
                ELSE [i \in 1..Len(Formats[dc.fmt]) |-> CaseToken(dc, Formats[dc.fmt][i])]
    IN  (IF dc.pad \in {"left", "both"} THEN <<WS>> ELSE <<>>)
        \o body
        \o (IF dc.pad \in {"right", "both"} THEN <<WS, WS>> ELSE <<>>)

\* parse_date(raw) runs and returns
ParseDateCall ==
    /\ pc = "parse_date"
    /\ parsed' = <<parse_date(raw_str)>>
    /\ pc' = "date_returned"
    /\ UNCHANGED <<site, raised, fetched, files, raw_str, date_case>>
    /\ UNCHANGED productVars
    /\ UNCHANGED testimonialVars
    /\ UNCHANGED reviewVars
    /\ UNCHANGED callerVars

-----------------------------------------------------------------------------
(* scrape_reviews *)

Review(id, date) == [id |-> id, text |-> "text", rating |-> 5, date |-> date]

\* A product detail page: script says what soup.find("script", ...) and
\* json.loads make of it.  "absent": no reviews-data script; "malformed": its
\* text is not JSON; "empty": it has no text (reviews_script.string is None);
\* "not_a_list": JSON, but a number; "ok": the list reviews.
Detail(script, reviews) == [script |-> script, reviews |-> reviews]

DetailAbsent == Detail("absent", <<>>)
DetailMalformed == Detail("malformed", <<>>)
DetailEmptyScript == Detail("empty", <<>>)
DetailNotAList == Detail("not_a_list", <<>>)
DetailNoReviews == Detail("ok", <<>>)
DetailMixed == Detail("ok", << Review("r1", RawIsoPadded), Review("r2", RawDotted2022),
                               Review("r3", RawNotADate) >>)
DetailOld == Detail("ok", << Review("r4", RawAbbr2023), Review("r5", RawEmpty),
                             Review("r6", RawIso1600) >>)
DetailLong == Detail("ok", << Review("r7", RawFull2023), Review("r8", RawDateTime2023),
                              Review("r9", RawFeb31) >>)

DetailSamples == {DetailAbsent, DetailMalformed, DetailEmptyScript, DetailNotAList,
                  DetailNoReviews, DetailMixed, DetailOld, DetailLong}

\* the document the site serves for a product url
DetailPage(u) == site.detail[u.n]

\* requests.get cannot request None or "" (MissingSchema)
CanRequest(u) == Truthy(u)

\* json.loads(reviews_script.string) raises: JSONDecodeError on text that is
\* not JSON, TypeError on None
JsonLoadsRaises(soup) == soup.script \in {"malformed", "empty"}

\* the handler that never catches
CatchesNothing == FALSE

\* except Exception as e: ... continue
CatchesException == TRUE

\* is_from_2023 without the year test
IsFrom2023AnyYear(date_parsed) == ~date_parsed.none

\* is_from_2023 = date_parsed is not None and date_parsed.year == 2023
IsFrom2023(date_parsed) == ~date_parsed.none /\ date_parsed.y = 2023

\* date_raw = review.get("date", ""); date_parsed = parse_date(date_raw) if date_raw else None
ReviewRow(review, product_url) ==
    LET date_raw == review.date
        date_parsed == IF date_raw # <<>> THEN parse_date(date_raw) ELSE NoDate
    IN  [review_id |-> review.id, product_url |-> product_url, text |-> review.text,
         rating |-> review.rating, date_raw |-> date_raw, date |-> date_parsed,
         is_from_2023 |-> IsFrom2023(date_parsed)]

\* the loop over the reviews of one payload
ReviewRows(reviews_json, product_url) ==
    [i \in 1..Len(reviews_json) |-> ReviewRow(reviews_json[i], product_url)]

\* pd.to_datetime(column, errors="coerce"): a date outside the range of a
\* nanosecond timestamp becomes NaT
ToDatetime(date) ==
    IF date.none \/ date.y < 1678 \/ date.y > 2261 THEN NoDate ELSE date

CoerceDates(df) == [i \in 1..Len(df) |-> [df[i] EXCEPT !.date = ToDatetime(df[i].date)]]

\* the filter that keeps every row
Filter2023All(df) == df

\* all_reviews_df[all_reviews_df["is_from_2023"] == True].copy()
Filter2023(df) == SelectSeq(df, LAMBDA r : r.is_from_2023 = TRUE)

\* the call of main that passes no table
PassesNothing == FALSE

\* main: scrape_reviews(products_df=products)
PassesProducts == TRUE

\* if products_df is None: products_df = scrape_products(), here with every
\* fetch succeeding; then product_links = products_df["link"].tolist(): a
\* table made of no rows has no column "link", and the lookup raises KeyError.
ScrapeReviewsStart ==
    /\ pc = "scrape_reviews"
    /\ LET crawl == IF df_given THEN [df |-> products_df, fetched |-> <<>>]
                    ELSE scrape_products
       IN  /\ Len(fetched) + Len(crawl.fetched) <= MaxFetch
           /\ fetched' = fetched \o crawl.fetched
           /\ IF crawl.df = <<>>
              THEN /\ raised' = [exc |-> "KeyError", where |-> "scrape_reviews"]
                   /\ pc' = "aborted"
                   /\ UNCHANGED reviewVars
              ELSE /\ product_links' = [i \in 1..Len(crawl.df) |-> crawl.df[i].link]
                   /\ idx' = 1
                   /\ r_all_rows' = <<>>
                   /\ pc' = "reviews_loop"
                   /\ UNCHANGED <<raised, all_reviews_df, reviews_2023_df, df_given>>
    /\ UNCHANGED <<site, files>>
    /\ UNCHANGED productVars
    /\ UNCHANGED testimonialVars
    /\ UNCHANGED callerVars
    /\ UNCHANGED dateVars

\* if products_df is None: products_df = scrape_products(), and get_soup raises
\* at its k-th request: nothing catches it.
ScrapeReviewsCrawlFail ==
    /\ pc = "scrape_reviews"
    /\ ~df_given
    /\ \E k \in 1..Len(scrape_products.fetched) :
          /\ Len(fetched) + k <= MaxFetch
          /\ fetched' = fetched \o SubSeq(scrape_products.fetched, 1, k)
    /\ raised' = [exc |-> "FetchError", where |-> "scrape_products"]
    /\ pc' = "aborted"
    /\ UNCHANGED <<site, files>>
    /\ UNCHANGED productVars
    /\ UNCHANGED testimonialVars
    /\ UNCHANGED reviewVars
    /\ UNCHANGED callerVars
    /\ UNCHANGED dateVars

\* One iteration of the loop over product_links whose fetch succeeds: no
\* script, or a script json.loads rejects: next product; a payload that is not
\* a list: len() raises TypeError; else one row per review.
ScrapeReviewsProduct ==
    /\ pc = "reviews_loop"
    /\ idx <= Len(product_links)
    /\ CanRequest(product_links[idx])
    /\ Len(fetched) < MaxFetch
    /\ fetched' = Append(fetched, Request(product_links[idx], NoHeaders))
    /\ LET product_url == product_links[idx]
           soup == DetailPage(product_url)
       IN  CASE soup.script = "absent" ->
                  /\ idx' = idx + 1
                  /\ UNCHANGED <<r_all_rows, pc, raised>>
             [] JsonLoadsRaises(soup) ->
                  IF CatchesException
                  THEN /\ idx' = idx + 1
                       /\ UNCHANGED <<r_all_rows, pc, raised>>
                  ELSE /\ raised' = [exc |-> "JSONDecodeError", where |-> "scrape_reviews"]
                       /\ pc' = "aborted"
                       /\ UNCHANGED <<r_all_rows, idx>>
             [] soup.script = "not_a_list" ->
                  /\ raised' = [exc |-> "TypeError", where |-> "scrape_reviews"]
                  /\ pc' = "aborted"
                  /\ UNCHANGED <<r_all_rows, idx>>
             [] OTHER ->
                  /\ r_all_rows' = r_all_rows \o ReviewRows(soup.reviews, product_url)
                  /\ idx' = idx + 1
                  /\ UNCHANGED <<pc, raised>>
    /\ UNCHANGED <<site, files, product_links, all_reviews_df, reviews_2023_df, df_given>>
    /\ UNCHANGED productVars
    /\ UNCHANGED testimonialVars
    /\ UNCHANGED callerVars
    /\ UNCHANGED dateVars

\* get_soup raises in the loop of scrape_reviews (a failed request, or a link
\* that is None): no try surrounds it, the loop and the call end.
ScrapeReviewsFetchFail ==
    /\ pc = "reviews_loop"
    /\ idx <= Len(product_links)
    /\ Len(fetched) < MaxFetch
    /\ fetched' = Append(fetched, Request(product_links[idx], NoHeaders))
    /\ raised' = [exc |-> "FetchError", where |-> "scrape_reviews"]
    /\ pc' = "aborted"
    /\ UNCHANGED <<site, files>>
    /\ UNCHANGED productVars
    /\ UNCHANGED testimonialVars
    /\ UNCHANGED reviewVars
    /\ UNCHANGED callerVars
    /\ UNCHANGED dateVars

\* After the loop: build the table, coerce its dates, filter the 2023 rows.
\* A table made of no rows has no column "is_from_2023": KeyError.
ScrapeReviewsReturn ==
    /\ pc = "reviews_loop"
    /\ idx > Len(product_links)
    /\ IF r_all_rows = <<>>
       THEN /\ raised' = [exc |-> "KeyError", where |-> "scrape_reviews"]
            /\ pc' = "aborted"
            /\ UNCHANGED <<all_reviews_df, reviews_2023_df>>
       ELSE /\ all_reviews_df' = CoerceDates(r_all_rows)
            /\ reviews_2023_df' = Filter2023(all_reviews_df')
            /\ pc' = "reviews_returned"
            /\ UNCHANGED raised
    /\ UNCHANGED <<site, fetched, files, product_links, idx, r_all_rows, df_given>>
    /\ UNCHANGED productVars
    /\ UNCHANGED testimonialVars
    /\ UNCHANGED callerVars
    /\ UNCHANGED dateVars

-----------------------------------------------------------------------------
(* main *)

\* to_csv that writes nothing
WriteNothing(fs, name, df) == fs

\* df.to_csv(OUT_DIR / name, index=False)
ToCsv(fs, name, df) == [fs EXCEPT ![name] = df]

\* products = scrape_products() has returned: write products.csv, then call
\* scrape_testimonials
MainWriteProducts ==
    /\ pc = "products_returned"
    /\ files' = ToCsv(files, "products.csv", products_df)
    /\ pc' = "scrape_testimonials"
    /\ UNCHANGED <<site, raised, fetched>>
    /\ UNCHANGED productVars
    /\ UNCHANGED testimonialVars
    /\ UNCHANGED reviewVars
    /\ UNCHANGED callerVars
    /\ UNCHANGED dateVars

\* testimonials = scrape_testimonials() has returned: write testimonials.csv,
\* then call scrape_reviews(products_df=products)
MainWriteTestimonials ==
    /\ pc = "testimonials_returned"
    /\ files' = ToCsv(files, "testimonials.csv", testimonials_df)
    /\ pc' = "scrape_reviews"
    /\ df_given' = PassesProducts
    /\ UNCHANGED <<site, raised, fetched>>
    /\ UNCHANGED productVars
    /\ UNCHANGED testimonialVars
    /\ UNCHANGED <<product_links, idx, r_all_rows, all_reviews_df, reviews_2023_df>>
    /\ UNCHANGED callerVars
    /\ UNCHANGED dateVars

\* scrape_reviews has returned: write reviews_all.csv
MainWriteReviewsAll ==
    /\ pc = "reviews_returned"
    /\ files' = ToCsv(files, "reviews_all.csv", all_reviews_df)
    /\ pc' = "write_reviews"
    /\ UNCHANGED <<site, raised, fetched>>
    /\ UNCHANGED productVars
    /\ UNCHANGED testimonialVars
    /\ UNCHANGED reviewVars
    /\ UNCHANGED callerVars
    /\ UNCHANGED dateVars

\* write reviews.csv; main ends
MainWriteReviews ==
    /\ pc = "write_reviews"
    /\ files' = ToCsv(files, "reviews.csv", reviews_2023_df)
    /\ pc' = "done"
    /\ UNCHANGED <<site, raised, fetched>>
    /\ UNCHANGED productVars
    /\ UNCHANGED testimonialVars
    /\ UNCHANGED reviewVars
    /\ UNCHANGED callerVars
    /\ UNCHANGED dateVars

-----------------------------------------------------------------------------
(* Initial states *)

NotWritten == <<"not written">>

FileNames == {"products.csv", "testimonials.csv", "reviews_all.csv", "reviews.csv"}

\* a testimonial chain and detail pages for the runs that do not read them
DefaultTestimonials == << [cards |-> <<>>] >>
DefaultDetail == [p \in Paths |-> DetailAbsent]

\* the locals of the three crawlers as their first statements set them
InitCrawlers ==
    /\ raised = NoRaise
    /\ fetched = <<>>
    /\ category = 1
    /\ url = CategoryUrl(categories[1])
    /\ page = 1
    /\ rows = <<>>
    /\ seen_links = {}
    /\ all_rows = <<>>
    /\ products_df = <<>>
    /\ t_url = TestimonialsUrl
    /\ t_page = 1
    /\ t_rows = <<>>
    /\ testimonials_df = <<>>
    /\ product_links = <<>>
    /\ idx = 1
    /\ r_all_rows = <<>>
    /\ all_reviews_df = <<>>
    /\ reviews_2023_df = <<>>
    /\ df_given = TRUE
    /\ files = [f \in FileNames |-> NotWritten]
    /\ calls = 1
    /\ first_df = <<>>

\* the crawlers at their first statements, parse_date not called
InitLocals ==
    /\ InitCrawlers
    /\ raw_str = <<>>
    /\ date_case = NoCase
    /\ parsed = <<>>

\* scrape_products() called on any site of the bounds
InitProducts ==
    /\ \E t \in ChainLengths :
          \E a \in SeqsOfLen(ListingSamples, t[1]),
             b \in SeqsOfLen(ListingSamples, t[2]),
             c \in SeqsOfLen(ListingSamples, t[3]) :
                site = [listing |-> MkListing(<<a, b, c>>),
                        testimonials |-> DefaultTestimonials, detail |-> DefaultDetail]
    /\ pc = "scrape_products"
    /\ InitLocals

\* a listing for the runs that do not read it
DefaultListing == MkListing(<< <<PageC>>, <<PageC>>, <<PageC>> >>)

\* scrape_testimonials() called on any testimonial chain of the bounds
InitTestimonials ==
    /\ site \in { [listing |-> DefaultListing, testimonials |-> t,
                   detail |-> DefaultDetail] : t \in TestimonialChains }
    /\ pc = "scrape_testimonials"
    /\ InitLocals

NextTestimonials == ScrapeTestimonialsPage \/ ScrapeTestimonialsFetchFail

SpecTestimonials == InitTestimonials /\ [][NextTestimonials]_vars

\* the links a product table may hold: the products of the site, and None
TableLinks == {ProductHref(TRUE, n) : n \in Paths} \cup {NoneUrl}

\* the product tables of at most MaxProducts rows, no link twice
ProductTables ==
    { [i \in 1..Len(l) |-> ProductRow(Card("name", l[i], "price", "description"), l[i],
                                      categories[1])] :
        l \in { l \in SeqsUpTo(TableLinks, 0, MaxProducts) :
                  \A i, j \in DOMAIN l : i # j => l[i] # l[j] } }

\* the listings of the sites scrape_reviews() crawls when it is given no table
CrawledListings ==
    { MkListing(<< <<PageA>>, <<PageC>>, <<PageN>> >>),
      MkListing(<< <<PageB, PageN>>, <<PageA>>, <<PageC>> >>),
      DefaultListing }

\* scrape_reviews(products_df) called with any product table of the bounds,
\* and scrape_reviews() called with none
InitReviews ==
    /\ \/ /\ df_given = TRUE
          /\ products_df \in ProductTables
          /\ site \in { [listing |-> DefaultListing, testimonials |-> DefaultTestimonials,
                         detail |-> d] : d \in [Paths -> DetailSamples] }
       \/ /\ df_given = FALSE
          /\ products_df = <<>>
          /\ site \in { [listing |-> l, testimonials |-> DefaultTestimonials,
                         detail |-> d] : l \in CrawledListings, d \in [Paths -> DetailSamples] }
    /\ pc = "scrape_reviews"
    /\ raised = NoRaise
    /\ fetched = <<>>
    /\ category = 1
    /\ url = CategoryUrl(categories[1])
    /\ page = 1
    /\ rows = <<>>
    /\ seen_links = {}
    /\ all_rows = <<>>
    /\ t_url = TestimonialsUrl
    /\ t_page = 1
    /\ t_rows = <<>>
    /\ testimonials_df = <<>>
    /\ product_links = <<>>
    /\ idx = 1
    /\ r_all_rows = <<>>
    /\ all_reviews_df = <<>>
    /\ reviews_2023_df = <<>>
    /\ files = [f \in FileNames |-> NotWritten]
    /\ calls = 1
    /\ first_df = <<>>
    /\ raw_str = <<>>
    /\ date_case = NoCase
    /\ parsed = <<>>

NextReviews ==
    \/ ScrapeReviewsStart
    \/ ScrapeReviewsCrawlFail
    \/ ScrapeReviewsProduct
    \/ ScrapeReviewsFetchFail
    \/ ScrapeReviewsReturn

SpecReviews == InitReviews /\ [][NextReviews]_vars

\* The sites of a top-level run: one listing page per category, a testimonial
\* chain of one or two pages, a detail page per product.
MainListings == { << <<a>>, <<b>>, <<c>> >> : a, b, c \in ListingSamples }

MainTestimonials ==
    { << [cards |-> TPage1] >>,
      << [cards |-> WithTrigger(TPage2, "placeholder", 1)], [cards |-> TPage1] >> }

MainDetails == [Paths -> {DetailMalformed, DetailMixed, DetailAbsent}]

\* main() started on any of these sites
InitMain ==
    /\ site \in { [listing |-> MkListing(l), testimonials |-> t, detail |-> d] :
                    l \in MainListings, t \in MainTestimonials, d \in MainDetails }
    /\ pc = "scrape_products"
    /\ InitLocals

NextMain ==
    \/ ScrapeProductsPage
    \/ ScrapeProductsFetchFail
    \/ MainWriteProducts
    \/ ScrapeTestimonialsPage
    \/ ScrapeTestimonialsFetchFail
    \/ MainWriteTestimonials
    \/ ScrapeReviewsStart
    \/ ScrapeReviewsProduct
    \/ ScrapeReviewsFetchFail
    \/ ScrapeReviewsReturn
    \/ MainWriteReviewsAll
    \/ MainWriteReviews

SpecMain == InitMain /\ [][NextMain]_vars

\* parse_date called on the raw string of any case, on junk and on ""
InitDates ==
    /\ site = [listing |-> DefaultListing, testimonials |-> DefaultTestimonials,
               detail |-> DefaultDetail]
    /\ InitCrawlers
    /\ pc = "parse_date"
    /\ parsed = <<>>
    /\ \/ \E dc \in DateCases : date_case = dc /\ raw_str = CaseRaw(dc)
       \/ \E pad \in CasePads :
             /\ date_case = DateCase(0, 0, 0, 0, 0, 0, pad)
             /\ raw_str = CaseRaw(date_case)
       \/ date_case = NoCase /\ raw_str = RawEmpty

NextDates == ParseDateCall

SpecDates == InitDates /\ [][NextDates]_vars

NextTwice ==
    \/ ScrapeProductsPage
    \/ ScrapeProductsFetchFail
    \/ CallScrapeProductsAgain

\* scrape_products() called twice in one process on any site of the bounds
SpecTwice == InitProducts /\ [][NextTwice]_vars

NextProducts == ScrapeProductsPage \/ ScrapeProductsFetchFail

SpecProducts == InitProducts /\ [][NextProducts]_vars

-----------------------------------------------------------------------------
(* Properties of scrape_products *)

\* what an href points at, whether written relative or absolute
LinkKey(h) == <<h.kind, h.cat, h.n>>

\* the positions <<category, page, card>> of the product cards of the site
CardPositions ==
    UNION { UNION { { <<c, k, i>> : i \in 1..Len(site.listing[c][k].cards) } :
                    k \in 1..Len(site.listing[c]) } :
            c \in 1..Len(categories) }

CardAt(p) == site.listing[p[1]][p[2]].cards[p[3]]

\* p is met before q by a crawl that visits every page
Before(p, q) ==
    \/ p[1] < q[1]
    \/ p[1] = q[1] /\ p[2] < q[2]
    \/ p[1] = q[1] /\ p[2] = q[2] /\ p[3] < q[3]

SameLink(p, q) == LinkKey(CardLink(CardAt(p))) = LinkKey(CardLink(CardAt(q)))

RowsWithKey(df, key) == {i \in DOMAIN df : LinkKey(df[i].link) = key}

\* the records made so far: rows joins all_rows when its category ends
RecordedRows == IF pc = "products_returned" THEN all_rows ELSE all_rows \o rows

\* C1: no two product records have the same link, while crawling and in the
\* returned table; when scrape_products has returned, every link on a card of
\* the site has exactly one record, every record's link is on a card, and
\* nothing was raised.
C1_UniqueLinks ==
    /\ \A i, j \in DOMAIN RecordedRows :
          i # j => RecordedRows[i].link # RecordedRows[j].link
    /\ pc = "products_returned" =>
          /\ \A i, j \in DOMAIN products_df :
                i # j => LinkKey(products_df[i].link) # LinkKey(products_df[j].link)
          /\ \A p \in CardPositions :
                Cardinality(RowsWithKey(products_df, LinkKey(CardLink(CardAt(p))))) = 1
          /\ \A i \in DOMAIN products_df :
                \E p \in CardPositions :
                    LinkKey(CardLink(CardAt(p))) = LinkKey(products_df[i].link)
          /\ raised = NoRaise

\* C1 witness: the crawl returned on a site where one product is linked from
\* two categories, once by a relative and once by an absolute href.
C1_Witness ==
    /\ pc = "products_returned"
    /\ \E p, q \in CardPositions :
          /\ p[1] # q[1]
          /\ CardAt(p).name # NONE
          /\ SameLink(p, q)
          /\ CardAt(p).href # CardAt(q).href

\* the cards of category c have links that differ from each other and from the
\* links of the cards of the earlier categories
UniqueLinksIn(c) ==
    \A p \in CardPositions :
        p[1] = c => \A q \in CardPositions : (Before(q, p) => ~SameLink(p, q))

RECURSIVE SumCards(_)
SumCards(pages) ==
    IF pages = <<>> THEN 0 ELSE Len(Head(pages).cards) + SumCards(Tail(pages))

FetchesOf(c) == SelectSeq(fetched, LAMBDA r : r.url.kind = "listing" /\ r.url.cat = c)

RecordsOf(df, c) == SelectSeq(df, LAMBDA r : r.category = c)

\* C8: when scrape_products has returned, a category whose cards have unique
\* links was fetched page 1, page 2, ..., page n, once each (n the length of
\* its chain), and has as many records as its pages have cards.
C8_ChainFetchesAndRecords ==
    pc = "products_returned" =>
        \A c \in 1..Len(categories) :
            UniqueLinksIn(c) =>
                /\ Len(FetchesOf(categories[c])) = Len(site.listing[c])
                /\ \A k \in 1..Len(site.listing[c]) :
                      FetchesOf(categories[c])[k].url = Href(TRUE, "listing", categories[c], k)
                /\ Len(RecordsOf(products_df, categories[c])) = SumCards(site.listing[c])

\* C8 witness: the crawl returned and a category of two pages of two cards
\* each, all links unique, has four records and two fetches.
C8_Witness ==
    /\ pc = "products_returned"
    /\ \E c \in 1..Len(categories) :
          /\ UniqueLinksIn(c)
          /\ Len(site.listing[c]) = 2
          /\ Len(site.listing[c][1].cards) = 2
          /\ Len(site.listing[c][2].cards) = 2
          /\ Len(RecordsOf(products_df, categories[c])) = 4
          /\ Len(FetchesOf(categories[c])) = 2

EmptyFirstPage(c) == site.listing[c][1].cards = <<>>

HasNextAnchor(soup) == \E i \in DOMAIN soup.paging : soup.paging[i].text = ">"

\* C16 (as claimed): when scrape_products has returned, a category whose
\* listing page has no product card has no record and was fetched exactly once.
C16_EmptyPageEndsCategory ==
    pc = "products_returned" =>
        \A c \in 1..Len(categories) :
            EmptyFirstPage(c) =>
                /\ Len(RecordsOf(products_df, categories[c])) = 0
                /\ Len(FetchesOf(categories[c])) = 1

\* C16 (amended): a category whose first listing page has no product card and
\* no ">" anchor never has a record and is never fetched twice; once its page
\* is fetched the crawl is in the next category or has returned, so it was
\* fetched exactly once.  An empty first page with a ">" anchor is followed
\* like any other page: the whole chain is fetched.
C16_EmptyPageWithoutNextEndsCategory ==
    \A c \in 1..Len(categories) :
        /\ (EmptyFirstPage(c) /\ ~HasNextAnchor(site.listing[c][1])) =>
              /\ Len(RecordsOf(RecordedRows, categories[c])) = 0
              /\ Len(FetchesOf(categories[c])) <= 1
              /\ (pc = "scrape_products" /\ category = c) => Len(FetchesOf(categories[c])) = 0
              /\ (pc = "products_returned" \/ category > c) => Len(FetchesOf(categories[c])) = 1
        /\ (pc = "products_returned" /\ EmptyFirstPage(c) /\ HasNextAnchor(site.listing[c][1])) =>
              /\ Len(site.listing[c]) >= 2
              /\ Len(FetchesOf(categories[c])) = Len(site.listing[c])

\* C16 witness: the crawl returned; the second category is one empty page,
\* fetched once, and the categories around it have records.
C16_Witness ==
    /\ pc = "products_returned"
    /\ EmptyFirstPage(2)
    /\ ~HasNextAnchor(site.listing[2][1])
    /\ Len(FetchesOf(categories[2])) = 1
    /\ Len(RecordsOf(products_df, categories[1])) >= 2
    /\ Len(RecordsOf(products_df, categories[3])) >= 1

MissingField(card) == card.name = NONE \/ card.price = NONE \/ card.description = NONE

\* C9 (as claimed): when scrape_products has returned, every card with an
\* absent name, price or description that does not repeat the link of an
\* earlier card has a record with its fields, the absent ones absent.
C9_MissingFieldRecorded ==
    pc = "products_returned" =>
        \A p \in CardPositions :
            ( /\ MissingField(CardAt(p))
              /\ \/ CardAt(p).name = NONE
                 \/ \A q \in CardPositions : Before(q, p) => ~SameLink(p, q) )
            => \E i \in DOMAIN products_df :
                  /\ products_df[i].name = CardAt(p).name
                  /\ products_df[i].price = CardAt(p).price
                  /\ products_df[i].description = CardAt(p).description
                  /\ products_df[i].category = categories[p[1]]
                  /\ LinkKey(products_df[i].link) = LinkKey(CardLink(CardAt(p)))

\* the first card, in crawl order, whose link is key
FirstPos(key) ==
    CHOOSE p \in CardPositions :
        /\ LinkKey(CardLink(CardAt(p))) = key
        /\ \A q \in CardPositions :
              LinkKey(CardLink(CardAt(q))) = key => (q = p \/ Before(p, q))

\* C13: when scrape_products has returned, its records are in first-seen
\* order: each record is the first card of its link, in the crawl order
\* apparel, consumables, household, pages in pagination order, cards in
\* document order, with that card's fields and category; no link has two
\* records.
C13_FirstSeenOrder ==
    pc = "products_returned" =>
        /\ \A i \in DOMAIN products_df :
              LET p == FirstPos(LinkKey(products_df[i].link))
              IN  /\ products_df[i].category = categories[p[1]]
                  /\ products_df[i].name = CardAt(p).name
                  /\ products_df[i].price = CardAt(p).price
                  /\ products_df[i].description = CardAt(p).description
        /\ \A i, j \in DOMAIN products_df :
              i < j => Before(FirstPos(LinkKey(products_df[i].link)),
                              FirstPos(LinkKey(products_df[j].link)))

\* C13 witness: the crawl returned records of two categories or more, one of
\* a category of two pages, on a site where a product linked from two
\* categories has the category of the first.
C13_Witness ==
    /\ pc = "products_returned"
    /\ \E c \in 1..Len(categories) : Len(site.listing[c]) >= 2
    /\ \E i, j \in DOMAIN products_df : products_df[i].category # products_df[j].category
    /\ \E p, q \in CardPositions :
          /\ p[1] < q[1]
          /\ CardAt(p).name # NONE
          /\ SameLink(p, q)
          /\ CardAt(p).description # CardAt(q).description
          /\ \E i \in DOMAIN products_df :
                /\ LinkKey(products_df[i].link) = LinkKey(CardLink(CardAt(p)))
                /\ products_df[i].category = categories[p[1]]

\* C12: when the second of two successive calls of scrape_products on one
\* site has returned, its table equals the table of the first call, and every
\* link the first call recorded is recorded by the second.
C12_SecondCallSameTable ==
    (calls = 2 /\ pc = "products_returned") =>
        /\ products_df = first_df
        /\ \A i \in DOMAIN first_df :
              \E j \in DOMAIN products_df : products_df[j].link = first_df[i].link

\* C12 witness: the second call returned a table of three records or more.
C12_Witness ==
    /\ calls = 2
    /\ pc = "products_returned"
    /\ Len(first_df) >= 3
    /\ Len(products_df) >= 3

-----------------------------------------------------------------------------
(* Properties of scrape_testimonials *)

\* the url the crawler builds for page k of the testimonial chain
TChainUrl(k) == Href(TRUE, "testimonials", "", k)

\* C6: scrape_testimonials requests the pages of the chain in chain order and
\* none twice: request i is for page i; when it has returned, it has
\* requested every page of the chain and its loop has ended.
C6_ChainVisitedOnce ==
    /\ Len(fetched) <= Len(site.testimonials)
    /\ \A i \in DOMAIN fetched : fetched[i].url = TChainUrl(i)
    /\ pc = "testimonials_returned" =>
          /\ Len(fetched) = Len(site.testimonials)
          /\ ~Truthy(t_url)

\* C6 witness: the crawl returned after a chain of three pages.
C6_Witness ==
    /\ pc = "testimonials_returned"
    /\ Len(site.testimonials) = 3
    /\ Len(fetched) = 3

\* C7: the first request of scrape_testimonials carries the default headers
\* only; every later one carries the secret token and a referer equal to the
\* testimonial listing url, which is the url of the first request.
C7_SecretHeadersAfterFirst ==
    \A i \in DOMAIN fetched :
        IF i = 1
        THEN fetched[i].headers = HEADERS /\ DOMAIN fetched[i].headers = {"ua"}
        ELSE /\ DOMAIN fetched[i].headers = {"ua", "token", "referer"}
             /\ fetched[i].headers.ua = HEADERS.ua
             /\ fetched[i].headers.token = "secret123"
             /\ fetched[i].headers.referer = TestimonialsUrl
             /\ fetched[i].headers.referer = fetched[1].url

\* C7 witness: three requests were issued, the last two with the secret headers.
C7_Witness ==
    /\ Len(fetched) = 3
    /\ "token" \in DOMAIN fetched[2].headers
    /\ "token" \in DOMAIN fetched[3].headers
    /\ "token" \notin DOMAIN fetched[1].headers

\* the cards of the testimonial pages in page order, then card order
RECURSIVE CardsInOrder(_)
CardsInOrder(pages) ==
    IF pages = <<>> THEN <<>> ELSE Head(pages).cards \o CardsInOrder(Tail(pages))

\* the cards that have a text element with text in it
ContentCards == SelectSeq(CardsInOrder(site.testimonials),
                          LAMBDA t : t.text \notin {NONE, ""})

\* C11: when scrape_testimonials has returned, its table has one record per
\* testimonial card with non-empty text and none for the others, in page
\* order then card order; the record has the card's author (absent or not),
\* its text, and its number of stars (zero, or absent without a rating
\* element).
C11_RecordPerCardWithText ==
    pc = "testimonials_returned" =>
        /\ Len(testimonials_df) = Len(ContentCards)
        /\ \A k \in DOMAIN testimonials_df :
              /\ testimonials_df[k].text = ContentCards[k].text
              /\ testimonials_df[k].author = ContentCards[k].author
              /\ testimonials_df[k].rating.none = (ContentCards[k].rating_el = <<>>)
              /\ ContentCards[k].rating_el # <<>> =>
                    testimonials_df[k].rating.n = Len(ContentCards[k].rating_el[1])
        /\ \A k \in DOMAIN testimonials_df : testimonials_df[k].text \notin {NONE, ""}

\* C11 witness: the crawl returned after two pages or more that hold a card
\* with empty text, a card without text element, and kept records without
\* author and with zero stars.
C11_Witness ==
    /\ pc = "testimonials_returned"
    /\ Len(site.testimonials) >= 2
    /\ \E i \in DOMAIN CardsInOrder(site.testimonials) :
          CardsInOrder(site.testimonials)[i].text = ""
    /\ \E i \in DOMAIN CardsInOrder(site.testimonials) :
          CardsInOrder(site.testimonials)[i].text = NONE
    /\ \E k \in DOMAIN testimonials_df : testimonials_df[k].author = NONE
    /\ \E k \in DOMAIN testimonials_df :
          ~testimonials_df[k].rating.none /\ testimonials_df[k].rating.n = 0
    /\ \E k \in DOMAIN testimonials_df : testimonials_df[k].rating.none

-----------------------------------------------------------------------------
(* Properties of scrape_reviews *)

Requested(u) == \E j \in DOMAIN fetched : fetched[j].url = u

FetchFailedInReviews == raised = [exc |-> "FetchError", where |-> "scrape_reviews"]

\* C2 (as claimed): when the fetch of the detail page of product idx has
\* failed, every later product of the list is still fetched.
C2_FetchFailureSkipsOneProduct ==
    FetchFailedInReviews =>
        \A j \in DOMAIN product_links : j > idx => Requested(product_links[j])

\* the step of the loop of scrape_reviews on a product whose page is fetched
\* and whose reviews payload json.loads rejects
AtUnparseablePayload ==
    /\ pc = "reviews_loop"
    /\ idx \in DOMAIN product_links
    /\ CanRequest(product_links[idx])
    /\ JsonLoadsRaises(DetailPage(product_links[idx]))

\* C3: a step of scrape_reviews on a product whose page is fetched and whose
\* payload cannot be parsed adds no review record, raises nothing, and leaves
\* the loop at the next product.
C3_UnparseablePayloadSkipped ==
    [][ (AtUnparseablePayload /\ fetched' # fetched /\ ~FetchFailedInReviews')
        => /\ r_all_rows' = r_all_rows
           /\ raised' = NoRaise
           /\ pc' = "reviews_loop"
           /\ idx' = idx + 1 ]_vars

\* C3 witness: scrape_reviews returned; a product with an unparseable payload
\* has no record, and a later product has records.
C3_Witness ==
    /\ pc = "reviews_returned"
    /\ \E i, j \in DOMAIN product_links :
          /\ i < j
          /\ CanRequest(product_links[i])
          /\ JsonLoadsRaises(DetailPage(product_links[i]))
          /\ \A k \in DOMAIN all_reviews_df : all_reviews_df[k].product_url # product_links[i]
          /\ \E k \in DOMAIN all_reviews_df : all_reviews_df[k].product_url = product_links[j]

\* the raw dates that are empty or match none of the formats
UnparseableRaw == {RawEmpty, RawNotADate, RawFeb31}

FlagMatchesDate(df) ==
    \A i \in DOMAIN df :
        /\ df[i].is_from_2023 <=> (~df[i].date.none /\ df[i].date.y = 2023)
        /\ df[i].date_raw \in UnparseableRaw => (df[i].date.none /\ ~df[i].is_from_2023)

\* the products whose reviews the loop has appended
Processed == 1..(idx - 1)

\* C4: in every review record, in the loop and in both returned tables,
\* is_from_2023 is true iff the date is present and of year 2023; a record
\* whose date_raw is empty or matches no format has no date and a false flag;
\* and every review of a parsed payload has its record (none is lost to an
\* error).
C4_FlagIffYear2023 ==
    /\ FlagMatchesDate(r_all_rows)
    /\ FlagMatchesDate(all_reviews_df)
    /\ FlagMatchesDate(reviews_2023_df)
    /\ \A i \in Processed :
          (CanRequest(product_links[i]) /\ DetailPage(product_links[i]).script = "ok")
          => LET page_reviews == DetailPage(product_links[i]).reviews
                 recs == SelectSeq(r_all_rows, LAMBDA r : r.product_url = product_links[i])
             IN  /\ Len(recs) = Len(page_reviews)
                 /\ \A k \in DOMAIN recs : recs[k].date_raw = page_reviews[k].date

\* C4 witness: scrape_reviews returned a table with a 2023 record, a record of
\* another year, a record whose date matches no format and one whose date is
\* empty.
C4_Witness ==
    /\ pc = "reviews_returned"
    /\ \E i \in DOMAIN all_reviews_df : all_reviews_df[i].is_from_2023
    /\ \E i \in DOMAIN all_reviews_df :
          ~all_reviews_df[i].date.none /\ ~all_reviews_df[i].is_from_2023
    /\ \E i \in DOMAIN all_reviews_df :
          all_reviews_df[i].date_raw = RawNotADate /\ all_reviews_df[i].date.none
    /\ \E i \in DOMAIN all_reviews_df :
          all_reviews_df[i].date_raw = RawEmpty /\ all_reviews_df[i].date.none

\* the flagged records of df in the order of df, written without SelectSeq
RECURSIVE FlaggedSubsequence(_)
FlaggedSubsequence(df) ==
    IF df = <<>> THEN <<>>
    ELSE (IF Head(df).is_from_2023 THEN <<Head(df)>> ELSE <<>>)
         \o FlaggedSubsequence(Tail(df))

\* the reviews of the payloads of the products in list order
RECURSIVE ReviewsOfProducts(_)
ReviewsOfProducts(links) ==
    IF links = <<>> THEN <<>>
    ELSE (IF CanRequest(Head(links)) /\ DetailPage(Head(links)).script = "ok"
          THEN [k \in 1..Len(DetailPage(Head(links)).reviews) |->
                   <<Head(links), DetailPage(Head(links)).reviews[k].id>>]
          ELSE <<>>)
         \o ReviewsOfProducts(Tail(links))

\* C5: when scrape_reviews has returned, its second table is the subsequence
\* of the first made of the records flagged is_from_2023, in the same order,
\* and the first table has one record per review of the products' payloads,
\* whatever its year.
C5_FilteredIsSubsequence ==
    pc = "reviews_returned" =>
        /\ reviews_2023_df = FlaggedSubsequence(all_reviews_df)
        /\ [k \in 1..Len(all_reviews_df) |->
               <<all_reviews_df[k].product_url, all_reviews_df[k].review_id>>]
           = ReviewsOfProducts(product_links)

\* C5 witness: scrape_reviews returned a first table with flagged and
\* unflagged records and a second table that is shorter and not empty.
C5_Witness ==
    /\ pc = "reviews_returned"
    /\ reviews_2023_df # <<>>
    /\ Len(reviews_2023_df) < Len(all_reviews_df)
    /\ \E i, j \in DOMAIN all_reviews_df :
          i < j /\ ~all_reviews_df[i].is_from_2023 /\ all_reviews_df[j].is_from_2023

\* scrape_products() run page by page returns what scrape_products gives
StepsAgreeWithCall ==
    (pc = "products_returned" /\ calls = 1) =>
        /\ products_df = scrape_products.df
        /\ fetched = scrape_products.fetched

\* the product table scrape_reviews works on
GivenProducts == IF df_given THEN products_df ELSE scrape_products.df

LinksOf(df) == [i \in 1..Len(df) |-> df[i].link]

\* the requests of product pages, and of listing pages, in the order issued
ProductFetches == SelectSeq(fetched, LAMBDA r : r.url.kind \in {"product", "none"})
ListingFetches == SelectSeq(fetched, LAMBDA r : r.url.kind = "listing")

PairsOf(df) == [i \in 1..Len(df) |-> <<df[i].product_url, df[i].review_id>>]

ReviewsReturned == pc \in {"reviews_returned", "write_reviews", "done"}

InReviewsLoop ==
    \/ pc = "reviews_loop"
    \/ ReviewsReturned
    \/ pc = "aborted" /\ raised.where = "scrape_reviews" /\ product_links # <<>>

\* What scrape_reviews requests and records is fixed by the table it works on:
\* its requests of product pages are, in order, the links of the first rows
\* of the table, all of them once it has returned, and its records are the
\* reviews of the pages of these links, each with the link of its page.
ReviewsFollowTable ==
    InReviewsLoop =>
        LET links == LinksOf(GivenProducts)
            n == Len(ProductFetches)
        IN  /\ product_links = links
            /\ n \in {idx - 1, idx}
            /\ n <= Len(links)
            /\ \A i \in 1..n : ProductFetches[i].url = links[i]
            /\ PairsOf(r_all_rows) = ReviewsOfProducts(SubSeq(links, 1, idx - 1))
            /\ ReviewsReturned =>
                  /\ n = Len(links)
                  /\ PairsOf(all_reviews_df) = ReviewsOfProducts(links)

\* C15: scrape_reviews requests exactly the links of the products it is
\* given, once each and in list order, and every record's product_url is the
\* link of the product whose page held the review; in main the table passed
\* to scrape_reviews is the one written to products.csv, and no listing page
\* is requested twice.
C15_ProductsOnlyInput ==
    /\ ReviewsFollowTable
    /\ (pc = "scrape_reviews" \/ InReviewsLoop) =>
          /\ df_given
          /\ files["products.csv"] # NotWritten
          /\ files["products.csv"] = GivenProducts
          /\ \A i, j \in DOMAIN ListingFetches :
                i # j => ListingFetches[i].url # ListingFetches[j].url

C15_Witness ==
    /\ pc = "done"
    /\ Len(products_df) >= 2
    /\ Len(ProductFetches) = Len(products_df)
    /\ \E i, j \in DOMAIN all_reviews_df :
          all_reviews_df[i].product_url # all_reviews_df[j].product_url

\* The date a calendar reads in the raw string of a case: absent when the
\* string follows no format, when its year has not four digits, and when its
\* month, day or hour does not exist (2022 and 2023 are not leap years).
ExpectedDate(dc) ==
    IF /\ dc.fmt \in 1..5
       /\ dc.yw = 4
       /\ dc.m \in 1..12
       /\ dc.d <= (IF dc.m = 2 THEN 28 ELSE 31)
       /\ (dc.fmt = 5 => dc.h <= 23)
    THEN [none |-> FALSE, y |-> dc.y, m |-> dc.m, d |-> dc.d,
          H |-> IF dc.fmt = 5 THEN dc.h ELSE 0,
          M |-> IF dc.fmt = 5 THEN 30 ELSE 0,
          S |-> 0]
    ELSE NoDate

\* the formats, in the order of parse_date, that read the trimmed string
MatchingFormats(r) == { i \in DOMAIN Formats : ~Strptime(Strip(r), Formats[i]).none }

\* C14: parse_date returns for every raw string; what it returns is the date
\* read by the first of the five formats, in their order, that matches the
\* trimmed string, and no date when none matches.
C14_FirstMatchingFormat ==
    pc = "date_returned" =>
        /\ Len(parsed) = 1
        /\ parsed[1] = ExpectedDate(date_case)
        /\ IF MatchingFormats(raw_str) = {} THEN parsed[1] = NoDate
           ELSE LET first == CHOOSE i \in MatchingFormats(raw_str) :
                                \A j \in MatchingFormats(raw_str) : i <= j
                IN  parsed[1] = Strptime(Strip(raw_str), Formats[first])

C14_Witness ==
    /\ pc = "date_returned"
    /\ date_case.fmt = 4
    /\ date_case.m = 5
    /\ date_case.pad = "both"
    /\ parsed = <<Date(2023, 5, 31, 0, 0, 0)>>

\* the sample dates parse as a calendar reads them
SampleDatesParse ==
    /\ parse_date(RawIsoPadded) = Date(2023, 3, 15, 0, 0, 0)
    /\ parse_date(RawDotted2022) = Date(2022, 3, 15, 0, 0, 0)
    /\ parse_date(RawAbbr2023) = Date(2023, 3, 15, 0, 0, 0)
    /\ parse_date(RawFull2023) = Date(2023, 3, 5, 0, 0, 0)
    /\ parse_date(RawDateTime2023) = Date(2023, 3, 15, 10, 30, 0)
    /\ parse_date(RawIso1600) = Date(1600, 1, 1, 0, 0, 0)
    /\ parse_date(RawNotADate) = NoDate
    /\ parse_date(RawFeb31) = NoDate
    /\ parse_date(RawEmpty) = NoDate

-----------------------------------------------------------------------------
(* Properties of main *)

Written(f) == files[f] # NotWritten

TestimonialStage == {"scrape_testimonials", "testimonials_returned"}
ReviewStage == {"scrape_reviews", "reviews_loop", "reviews_returned"}

\* C10: in a top-level run, while the testimonial crawl runs or after it has
\* aborted, products.csv holds the product table and no other file is
\* written; while review extraction runs or after it has aborted,
\* products.csv and testimonials.csv hold their tables and neither reviews
\* file is written; nothing is written when the product crawl aborts.
C10_EarlierFilesOnDisk ==
    /\ (pc \in TestimonialStage \/ raised.where = "scrape_testimonials") =>
          /\ Written("products.csv") /\ files["products.csv"] = products_df
          /\ ~Written("testimonials.csv")
          /\ ~Written("reviews_all.csv") /\ ~Written("reviews.csv")
    /\ (pc \in ReviewStage \/ raised.where = "scrape_reviews") =>
          /\ Written("products.csv") /\ files["products.csv"] = products_df
          /\ Written("testimonials.csv") /\ files["testimonials.csv"] = testimonials_df
          /\ ~Written("reviews_all.csv") /\ ~Written("reviews.csv")
    /\ (pc = "scrape_products" \/ raised.where = "scrape_products") =>
          \A f \in FileNames : ~Written(f)

FetchFailedIn(stage) == raised = [exc |-> "FetchError", where |-> stage]

\* C17: when a fetch has failed in scrape_products or in scrape_testimonials,
\* the run has ended with the error, the failed request is the last one
\* issued, the crawl has returned no table although it may hold records, and
\* neither the file of its stage nor that of a later stage is written.
C17_FetchFailureAbortsCrawl ==
    /\ FetchFailedIn("scrape_products") =>
          /\ pc = "aborted"
          /\ fetched[Len(fetched)].url = url
          /\ \A i \in DOMAIN fetched : fetched[i].url.kind = "listing"
          /\ products_df = <<>>
          /\ testimonials_df = <<>>
          /\ \A f \in FileNames : ~Written(f)
    /\ FetchFailedIn("scrape_testimonials") =>
          /\ pc = "aborted"
          /\ fetched[Len(fetched)].url = t_url
          /\ ProductFetches = <<>>
          /\ testimonials_df = <<>>
          /\ all_reviews_df = <<>>
          /\ \A f \in FileNames \ {"products.csv"} : ~Written(f)

\* C17 witness: the fetch of the second testimonial page failed after the
\* first page gave records; products.csv is written, testimonials.csv is not.
C17_Witness ==
    /\ FetchFailedIn("scrape_testimonials")
    /\ t_page = 2
    /\ t_rows # <<>>
    /\ Written("products.csv")
    /\ files["products.csv"] # <<>>
    /\ ~Written("testimonials.csv")

\* C10 witness: review extraction aborted on a failed fetch after it had
\* read a product's reviews, with products.csv and testimonials.csv written.
C10_Witness ==
    /\ pc = "aborted"
    /\ raised.where = "scrape_reviews"
    /\ r_all_rows # <<>>
    /\ Written("products.csv") /\ files["products.csv"] # <<>>
    /\ Written("testimonials.csv") /\ files["testimonials.csv"] # <<>>

====
